---- MODULE Spec2Model ----
(***************************************************************************)
(* Model of the mcp-sdlt server (src/src/main.rs): the calculate_sdlt tool *)
(* handler, the argument type IpValidateRequest, the tool box advertised   *)
(* by the ServerHandler impl, and main's serve / waiting lifecycle.        *)
(*                                                                         *)
(* Numbers.  property_value is an f64 in the source.  The model draws it   *)
(* from whole pounds, and keeps the tax in pence: a whole number of pounds *)
(* times a rate of 2, 5, 10 or 12 per cent is a whole number of pence, so  *)
(* the real-number value of every product and sum below is an integer and  *)
(* the two-decimal rendering of format!("{:.2}") has no digit to round.    *)
(* f64 rounding error (relative 2^-53) is below what the rendering shows.  *)
(***************************************************************************)
EXTENDS Integers, Sequences, FiniteSets, TLC

VARIABLES pc, svc, quitReason, exit, inflight, last, seen, gap

vars == <<pc, svc, quitReason, exit, inflight, last, seen, gap>>

-----------------------------------------------------------------------------
(* Bounds of the model *)

\* requests that may be outstanding (received, not yet answered) at once
MaxInflight == 1

\* the distance, in pounds, of the property values drawn below and above
\* each band threshold
Eps == 1

-----------------------------------------------------------------------------
(* Constants of calculate_sdlt: thresholds in pounds, rates in per cent *)

Threshold1 == 125000
Threshold2 == 250000
Threshold3 == 925000
Threshold4 == 1500000

Rate1 == 2
Rate2 == 5
Rate3 == 10
Rate4 == 12

Thresholds == {Threshold1, Threshold2, Threshold3, Threshold4}

Min(a, b) == IF a < b THEN a ELSE b
Max(a, b) == IF a > b THEN a ELSE b

-----------------------------------------------------------------------------
(* The f64 values a client sends as property_value, in whole pounds *)

PropertyValues ==
    {0 - 1, 0, 500000, 2000000}
        \cup {t + d : t \in Thresholds, d \in {0 - Eps, 0, Eps}}

-----------------------------------------------------------------------------
(* calculate_sdlt: the band accumulation, in source order (top band first) *)

\* let mut tax = 0.0;
TaxInit == 0

\* Band4 measuring the top band from the wrong threshold
Band4WrongBase(property_value, tax) ==
    IF property_value > Threshold4
    THEN tax + (property_value - Threshold3) * Rate4
    ELSE tax

\* if property_value > 1_500_000.0 { tax += (property_value - 1_500_000.0) * 0.12; }
Band4(property_value, tax) ==
    IF property_value > Threshold4
    THEN tax + (property_value - Threshold4) * Rate4
    ELSE tax

\* Band3 without the cap of `upper` at the next threshold
Band3NoCap(property_value, tax) ==
    IF property_value > Threshold3
    THEN LET upper == property_value
         IN  tax + (upper - Threshold3) * Rate3
    ELSE tax

\* if property_value > 925_000.0 { upper = min(1_500_000.0); tax += (upper - 925_000.0) * 0.10; }
Band3(property_value, tax) ==
    IF property_value > Threshold3
    THEN LET upper == Min(property_value, Threshold4)
         IN  tax + (upper - Threshold3) * Rate3
    ELSE tax

\* Band2 applied only to values inside the band (an else-if ladder)
Band2Exclusive(property_value, tax) ==
    IF property_value > Threshold2 /\ property_value <= Threshold3
    THEN LET upper == Min(property_value, Threshold3)
         IN  tax + (upper - Threshold2) * Rate2
    ELSE tax

\* if property_value > 250_000.0 { upper = min(925_000.0); tax += (upper - 250_000.0) * 0.05; }
Band2(property_value, tax) ==
    IF property_value > Threshold2
    THEN LET upper == Min(property_value, Threshold3)
         IN  tax + (upper - Threshold2) * Rate2
    ELSE tax

\* Band1 with the comparison turned round
Band1Flipped(property_value, tax) ==
    IF property_value < Threshold1
    THEN LET upper == Min(property_value, Threshold2)
         IN  tax + (upper - Threshold1) * Rate1
    ELSE tax

\* if property_value > 125_000.0 { upper = min(250_000.0); tax += (upper - 125_000.0) * 0.02; }
Band1(property_value, tax) ==
    IF property_value > Threshold1
    THEN LET upper == Min(property_value, Threshold2)
         IN  tax + (upper - Threshold1) * Rate1
    ELSE tax

\* the value of tax, in pence, when the four if-blocks have run
ComputeTax(property_value) ==
    Band1(property_value,
        Band2(property_value,
            Band3(property_value,
                Band4(property_value, TaxInit))))

\* "{:.2}" of an amount given in pence: sign, integer part, point, two digits
FormatTwoDp(pence) ==
    LET a == IF pence < 0 THEN 0 - pence ELSE pence
        frac == a % 100
    IN  (IF pence < 0 THEN "-" ELSE "")
            \o ToString(a \div 100) \o "."
            \o (IF frac < 10 THEN "0" ELSE "") \o ToString(frac)

\* format!("SDLT for £{property_value:.2} is £{tax:.2}")
SdltText(property_value, tax) ==
    "SDLT for £" \o FormatTwoDp(property_value * 100)
        \o " is £" \o FormatTwoDp(tax)

-----------------------------------------------------------------------------
(* MCP results and errors *)

\* no tool descriptors / no text in a response that carries none
NoTools == <<>>

\* CallToolResult::success(vec![Content::text(text)]): isError unset, one text
Success(text) ==
    [kind |-> "result", isError |-> FALSE, text |-> text,
     tools |-> NoTools, error |-> ""]

\* a tool-level error result (isError set) of the given kind
ToolError(errkind) ==
    [kind |-> "result", isError |-> TRUE, text |-> "",
     tools |-> NoTools, error |-> errkind]

\* a JSON-RPC error response: no result at all
RpcError(code) ==
    [kind |-> "rpc_error", isError |-> TRUE, text |-> "",
     tools |-> NoTools, error |-> code]

\* the result of tools/list
ToolsResult(tools) ==
    [kind |-> "result", isError |-> FALSE, text |-> "",
     tools |-> tools, error |-> ""]

-----------------------------------------------------------------------------
(* The arguments object of a tools/call, and IpValidateRequest *)

\* {} | {"property_value": "abc"} | {"property_value": <number>}
Absent == [kind |-> "absent", value |-> 0]
NotANumber == [kind |-> "string", value |-> 0]
Number(v) == [kind |-> "number", value |-> v]

Arguments == {Absent, NotANumber} \cup {Number(v) : v \in PropertyValues}

\* #[derive(Deserialize)] struct IpValidateRequest { pub property_value: f64 }
\* the field is a plain f64 (no Option, no default): decoding succeeds only
\* on an object that has a numeric property_value
Deserialize(args) ==
    IF args.kind = "number"
    THEN [ok |-> TRUE, property_value |-> args.value]
    ELSE [ok |-> FALSE, property_value |-> 0]

\* a handler that keeps its previous result and hands it out again
calculate_sdlt_stale(property_value) ==
    IF last.resp.kind = "result" /\ last.resp.text # ""
    THEN last.resp
    ELSE Success(SdltText(property_value, ComputeTax(property_value)))

\* the handler: match Some(property_value) always takes the Some arm, the
\* bands run, and the result is always Ok(CallToolResult::success(..))
calculate_sdlt(property_value) ==
    LET tax == ComputeTax(property_value)
    IN  Success(SdltText(property_value, tax))

\* #[tool(aggr)] IpValidateRequest: the whole arguments object is decoded into
\* the struct before the handler runs; when decoding fails the handler is not
\* called and the call is answered with an invalid-params error
CallCalculateSdlt(args) ==
    LET req == Deserialize(args)
    IN  IF req.ok
        THEN calculate_sdlt(req.property_value)
        ELSE RpcError("invalid_params")

-----------------------------------------------------------------------------
(* The tool box *)

ToolName == "calculate_sdlt"

\* schemars::JsonSchema for IpValidateRequest
InputSchema ==
    [type |-> "object",
     properties |-> [property_value |-> [type |-> "number"]],
     required |-> <<"property_value">>]

\* #[tool(description = "Calculate UK SDLT - property tax")] async fn calculate_sdlt
Descriptor ==
    [name |-> ToolName,
     description |-> "Calculate UK SDLT - property tax",
     inputSchema |-> InputSchema]

\* a tool box with no tool registered
ToolBoxEmpty == <<>>

\* #[tool(tool_box)] impl Calculator / impl ServerHandler: the one #[tool] method
ToolBox == <<Descriptor>>

\* tools/list
ListTools == ToolsResult(ToolBox)

\* tools/call: the tool box looks the name up among its tools
CallTool(name, args) ==
    IF \E i \in 1..Len(ToolBox) : ToolBox[i].name = name /\ name = ToolName
    THEN CallCalculateSdlt(args)
    ELSE RpcError("tool_not_found")

-----------------------------------------------------------------------------
(* Requests *)

ListRequest == [method |-> "tools/list", name |-> "", args |-> Absent]
CallRequest(name, args) == [method |-> "tools/call", name |-> name, args |-> args]

Requests ==
    {ListRequest}
        \cup {CallRequest(ToolName, a) : a \in Arguments}
        \cup {CallRequest("no_such_tool", Number(0))}

\* a frame that is not JSON-RPC: it decodes to no request
MalformedFrame == [method |-> "malformed", name |-> "", args |-> Absent]

\* the server's answer to a decoded request
Serve(req) ==
    IF req.method = "tools/list"
    THEN ListTools
    ELSE CallTool(req.name, req.args)

\* the value of the handler's local `tax` (pence) when it returned, for a
\* request that reached the handler; 0 for one that did not
HandlerTax(req) ==
    IF req.method = "tools/call" /\ req.name = ToolName /\ Deserialize(req.args).ok
    THEN ComputeTax(Deserialize(req.args).property_value)
    ELSE 0

\* a request, the response written for it, and the handler's tax
Exchange(req) == [req |-> req, resp |-> Serve(req), tax |-> HandlerTax(req)]

\* nothing answered yet
NoExchange == [req |-> [method |-> "none", name |-> "", args |-> Absent],
               resp |-> RpcError("none"), tax |-> 0]

\* how many responses were written after the remembered exchange `seen`:
\* none remembered, 0 (it is the last one), 1, or more
NextGap(g) ==
    CASE g = "none" -> "none"
      [] g = "zero" -> "one"
      [] OTHER -> "more"

-----------------------------------------------------------------------------
(* main: serve(stdio()).await?, service.waiting().await?, Ok(()) *)

\* where main goes when serve() has returned the running service
MainAfterServe == "waiting"

\* main not waiting for the service loop to end
WaitingReturnsAlways == TRUE

\* service.waiting().await resolves when the service loop has ended
WaitingReturns == svc = "closed"

\* what waiting() resolves to, by the reason the service loop ended
WaitingResult(reason) == IF reason = "Closed" THEN "Ok" ELSE "Err"

\* main's return value as a process exit status: `?` passes an Err on
\* (status 1), Ok(()) is status 0
ExitStatus(result) == IF result = "Ok" THEN 0 ELSE 1

Running == pc = "waiting" /\ svc = "ready"

-----------------------------------------------------------------------------
(* Initial state: the process has started, serve() awaits initialize *)

Init ==
    /\ pc = "serve"
    /\ svc = "initialising"
    /\ quitReason = "none"
    /\ exit = <<>>
    /\ inflight = {}
    /\ last = NoExchange
    /\ seen = NoExchange
    /\ gap = "none"

\* serve(stdio()) completes the initialize handshake; main moves on
Initialize ==
    /\ pc = "serve"
    /\ svc = "initialising"
    /\ pc' = MainAfterServe
    /\ svc' = "ready"
    /\ UNCHANGED <<quitReason, exit, inflight, last, seen, gap>>

\* serve(stdio()) fails: inspect_err prints, `?` returns the error from main
StartupError ==
    /\ pc = "serve"
    /\ svc = "initialising"
    /\ pc' = "done"
    /\ svc' = "closed"
    /\ quitReason' = "StartupError"
    /\ exit' = <<ExitStatus("Err")>>
    /\ UNCHANGED <<inflight, last, seen, gap>>

\* a request frame is read and decoded; its handler is outstanding
Receive(req) ==
    /\ svc = "ready"
    /\ Cardinality(inflight) < MaxInflight
    /\ req \notin inflight
    /\ inflight' = inflight \cup {req}
    /\ UNCHANGED <<pc, svc, quitReason, exit, last, seen, gap>>

\* an outstanding request is answered; remember says whether an observer
\* keeps this exchange to compare later ones against
Respond(req, remember) ==
    /\ svc \in {"ready", "shutting_down"}
    /\ req \in inflight
    /\ inflight' = inflight \ {req}
    /\ last' = Exchange(req)
    /\ seen' = IF remember THEN last' ELSE seen
    /\ gap' = IF remember THEN "zero" ELSE NextGap(gap)
    /\ UNCHANGED <<pc, svc, quitReason, exit>>

\* a frame that is not JSON-RPC is answered with a parse error
Malformed ==
    /\ svc = "ready"
    /\ last' = [req |-> MalformedFrame, resp |-> RpcError("parse_error"), tax |-> 0]
    /\ gap' = NextGap(gap)
    /\ UNCHANGED <<pc, svc, quitReason, exit, inflight, seen>>

\* stdin reaches end of file
StdinEOF ==
    /\ svc = "ready"
    /\ svc' = "shutting_down"
    /\ quitReason' = "Closed"
    /\ UNCHANGED <<pc, exit, inflight, last, seen, gap>>

\* a read or write on the transport fails
TransportError ==
    /\ svc = "ready"
    /\ svc' = "shutting_down"
    /\ quitReason' = "TransportError"
    /\ UNCHANGED <<pc, exit, inflight, last, seen, gap>>

\* the service loop ends when the outstanding calls have finished
ServiceQuit ==
    /\ svc = "shutting_down"
    /\ inflight = {}
    /\ svc' = "closed"
    /\ UNCHANGED <<pc, quitReason, exit, inflight, last, seen, gap>>

\* main returns from waiting() and the process exits
Exit ==
    /\ pc = "waiting"
    /\ WaitingReturns
    /\ pc' = "done"
    /\ svc' = "closed"
    /\ exit' = <<ExitStatus(WaitingResult(quitReason))>>
    /\ inflight' = {}
    /\ UNCHANGED <<quitReason, last, seen, gap>>

Next ==
    \/ Initialize
    \/ StartupError
    \/ \E req \in Requests : Receive(req)
    \/ \E req \in Requests, remember \in BOOLEAN : Respond(req, remember)
    \/ Malformed
    \/ StdinEOF
    \/ TransportError
    \/ ServiceQuit
    \/ Exit

Spec == Init /\ [][Next]_vars

-----------------------------------------------------------------------------
(* Properties *)

\* the exchange answered a calculate_sdlt call carrying a number
IsNumberCall(x) ==
    /\ x.req.method = "tools/call"
    /\ x.req.name = ToolName
    /\ x.req.args.kind = "number"

\* ... a finite, non-negative one
IsValidCall(x) == IsNumberCall(x) /\ x.req.args.value >= 0

ValueOf(x) == x.req.args.value

\* the marginal-band reference formula, in pence: t1 + t2 + t3 + t4
RefTax(v) ==
    Max(0, Min(v, Threshold2) - Threshold1) * Rate1
        + Max(0, Min(v, Threshold3) - Threshold2) * Rate2
        + Max(0, Min(v, Threshold4) - Threshold3) * Rate3
        + Max(0, v - Threshold4) * Rate4

\* C1: for every valid property value the tax the handler accumulates, and
\* the tax its response text shows, is the marginal-band sum t1+t2+t3+t4.
C1_TaxIsBandSum ==
    IsValidCall(last) =>
        /\ last.tax = RefTax(ValueOf(last))
        /\ last.resp = Success(SdltText(ValueOf(last), RefTax(ValueOf(last))))

C1_Witness ==
    /\ IsValidCall(last)
    /\ ValueOf(last) = 2000000
    /\ last.resp.text = "SDLT for £2000000.00 is £153750.00"

\* C2: a call whose property_value is a negative number is answered with a
\* tool-level error result of kind InvalidInput and no tax text.
C2_NegativeIsInvalidInput ==
    (IsNumberCall(last) /\ ValueOf(last) < 0) =>
        last.resp = ToolError("InvalidInput")

\* C3: a call whose arguments have no property_value is answered with a
\* success result whose one text is exactly 'Property value is missing.'.
C3_MissingIsSoftSuccess ==
    (/\ last.req.method = "tools/call"
     /\ last.req.name = ToolName
     /\ last.req.args = Absent) =>
        last.resp = Success("Property value is missing.")

\* C4: of two valid calls, the one with the smaller (or equal) property
\* value never gets the larger tax.
C4_Monotonic ==
    (IsValidCall(seen) /\ IsValidCall(last)) =>
        /\ ValueOf(seen) <= ValueOf(last) => seen.tax <= last.tax
        /\ ValueOf(last) <= ValueOf(seen) => last.tax <= seen.tax

C4_Witness ==
    /\ IsValidCall(seen) /\ IsValidCall(last)
    /\ ValueOf(seen) = Threshold3
    /\ ValueOf(last) = Threshold3 + Eps
    /\ seen.tax < last.tax

\* C5: for every valid property value v, 0 <= tax <= 0.12 * v, and so
\* tax <= v (tax in pence, v in pounds).
C5_Bounded ==
    IsValidCall(last) =>
        /\ 0 <= last.tax
        /\ last.tax <= Rate4 * ValueOf(last)
        /\ last.tax <= 100 * ValueOf(last)

C5_Witness ==
    /\ IsValidCall(last)
    /\ ValueOf(last) > Threshold4
    /\ last.tax > 0

C7_OnlyTransportFatal ==
    [][(Running /\ ~Running') =>
            /\ quitReason = "none"
            /\ quitReason' \in {"Closed", "TransportError"}]_vars

C7_Witness ==
    /\ Running
    /\ gap = "more"
    /\ seen.resp.kind = "rpc_error"
    /\ last.resp.kind = "result"
    /\ ~last.resp.isError

\* C9: every tools/list is answered with exactly one descriptor: name
\* calculate_sdlt, the description, and a schema requiring the number
\* property_value, whatever requests came before.
C9_Advertising ==
    \A x \in {seen, last} :
        x.req.method = "tools/list" =>
            /\ x.resp.kind = "result"
            /\ ~x.resp.isError
            /\ Len(x.resp.tools) = 1
            /\ x.resp.tools[1].name = "calculate_sdlt"
            /\ x.resp.tools[1].description = "Calculate UK SDLT - property tax"
            /\ x.resp.tools[1].inputSchema.type = "object"
            /\ x.resp.tools[1].inputSchema.required = <<"property_value">>
            /\ x.resp.tools[1].inputSchema.properties.property_value.type = "number"

C9_Witness ==
    /\ last.req.method = "tools/list"
    /\ Len(last.resp.tools) = 1
    /\ seen.req.method = "tools/call"
    /\ gap = "more"

\* the threshold a band starts at, and that band's rate
RateAbove(t) ==
    CASE t = Threshold1 -> Rate1
      [] t = Threshold2 -> Rate2
      [] t = Threshold3 -> Rate3
      [] OTHER -> Rate4

\* the end of the band that starts at t (none for the top band)
InBandAbove(t, v) ==
    /\ v > t
    /\ \A u \in Thresholds : u > t => v <= u

\* C10: the tax at 0 and at the thresholds is 0, 0, 2500, 36250, 93750
\* pounds, and from a threshold t to a value t + e in the band above it the
\* tax grows by exactly that band's rate times e.
C10_ThresholdsContinuous ==
    /\ IsValidCall(last) =>
        /\ ValueOf(last) = 0 => last.tax = 0
        /\ ValueOf(last) = 125000 => last.tax = 0
        /\ ValueOf(last) = 250000 => last.tax = 250000
        /\ ValueOf(last) = 925000 => last.tax = 3625000
        /\ ValueOf(last) = 1500000 => last.tax = 9375000
    /\ (/\ IsValidCall(seen) /\ IsValidCall(last)
        /\ ValueOf(seen) \in Thresholds
        /\ InBandAbove(ValueOf(seen), ValueOf(last))) =>
            last.tax - seen.tax
                = RateAbove(ValueOf(seen)) * (ValueOf(last) - ValueOf(seen))

C10_Witness ==
    /\ IsValidCall(seen) /\ IsValidCall(last)
    /\ ValueOf(seen) = Threshold4
    /\ ValueOf(last) = Threshold4 + Eps
    /\ last.tax = seen.tax + Rate4 * Eps
    /\ last.resp.text # seen.resp.text

====
